---- MODULE Spec2Model ----
(***************************************************************************)
(* Model of linecol.go (package jsonparser): LineIndex, NewLineIndex,      *)
(* FindNewlines, OffsetToLineCol, bytePosToRunePos.                        *)
(*                                                                         *)
(* A blob is a sequence of byte values.  Go offsets are 0-based; TLA+      *)
(* sequences are 1-based, so byte i of the blob is blob[i + 1].            *)
(* A call that ends in a Go run-time panic (index or slice bounds) yields  *)
(* the result Panic; run-time panics are deterministic in Go.              *)
(***************************************************************************)
EXTENDS Integers, Sequences, FiniteSets, TLC

\* ---------------------------------------------------------------- bounds
MaxLen == 4

\* byte values used to build blobs: '\n', 'a', 0xC3 (2-byte lead),
\* 0xA9 (continuation byte), 0xE2 (3-byte lead)
Bytes == {10, 97, 195, 169, 226}

Newline == 10

RuneError == 65533

RECURSIVE SeqsOfLen(_)
SeqsOfLen(k) ==
  IF k = 0 THEN {<< >>}
  ELSE {Append(s, b) : s \in SeqsOfLen(k - 1), b \in Bytes}

Blobs == UNION {SeqsOfLen(k) : k \in 0..MaxLen}

Offsets == (-1)..(MaxLen + 1)

\* ------------------------------------------------------- Go primitives
At(blob, i) == blob[i + 1]

IsCont(c) == c \in 128..191

\* nominal size of the sequence a leading byte announces (0: invalid lead)
LeadSize(b0) ==
  IF b0 < 128 THEN 1
  ELSE IF b0 \in 194..223 THEN 2
  ELSE IF b0 \in 224..239 THEN 3
  ELSE IF b0 \in 240..244 THEN 4
  ELSE 0

\* range the second byte must lie in
AcceptLo(b0) == IF b0 = 224 THEN 160 ELSE IF b0 = 240 THEN 144 ELSE 128
AcceptHi(b0) == IF b0 = 237 THEN 159 ELSE IF b0 = 244 THEN 143 ELSE 191

\* decode the rune that starts at byte i (0 <= i < Len(blob)):
\* an invalid or truncated sequence decodes as RuneError of width 1
DecodeRune(blob, i) ==
  LET b0   == At(blob, i)
      size == LeadSize(b0)
      bad  == [rune |-> RuneError, width |-> 1]
  IN  IF size = 0 THEN bad
      ELSE IF size = 1 THEN [rune |-> b0, width |-> 1]
      ELSE IF i + size > Len(blob) THEN bad
      ELSE IF ~(At(blob, i + 1) \in AcceptLo(b0)..AcceptHi(b0)) THEN bad
      ELSE IF size = 2
        THEN [rune |-> (b0 % 32) * 64 + (At(blob, i + 1) % 64), width |-> 2]
      ELSE IF ~IsCont(At(blob, i + 2)) THEN bad
      ELSE IF size = 3
        THEN [rune |-> (b0 % 16) * 4096 + (At(blob, i + 1) % 64) * 64
                        + (At(blob, i + 2) % 64), width |-> 3]
      ELSE IF ~IsCont(At(blob, i + 3)) THEN bad
      ELSE [rune |-> (b0 % 8) * 262144 + (At(blob, i + 1) % 64) * 4096
                      + (At(blob, i + 2) % 64) * 64 + (At(blob, i + 3) % 64),
            width |-> 4]

RECURSIVE RuneCountFrom(_, _)
RuneCountFrom(s, i) ==
  IF i >= Len(s) THEN 0
  ELSE 1 + RuneCountFrom(s, i + DecodeRune(s, i).width)

RuneCountInString(s) == RuneCountFrom(s, 0)

\* sort.Search(n, f) with f(i) == offset < np[i]: binary search for the
\* smallest i in [0, n] with f(i)
RECURSIVE SearchLoop(_, _, _, _)
SearchLoop(np, offset, i, j) ==
  IF i < j
    THEN LET h == (i + j) \div 2
         IN  IF ~(offset < np[h + 1])
               THEN SearchLoop(np, offset, h + 1, j)
               ELSE SearchLoop(np, offset, i, h)
    ELSE i

Search(np, offset) == SearchLoop(np, offset, 0, Len(np))

\* ------------------------------------------------------------- results
Pos(l, b, r) == [kind |-> "ok", line |-> l, bytecol |-> b, runecol |-> r]
Panic        == [kind |-> "panic", line |-> 0, bytecol |-> 0, runecol |-> 0]
NoResult     == [kind |-> "none", line |-> 0, bytecol |-> 0, runecol |-> 0]

\* ------------------------------------------------------- FindNewlines
\* variation: records the ordinal of the rune instead of its byte index
RECURSIVE FindNewlinesByRune(_, _, _, _)
FindNewlinesByRune(blob, index, k, acc) ==
  IF index >= Len(blob) THEN acc
  ELSE LET d == DecodeRune(blob, index)
       IN  FindNewlinesByRune(blob, index + d.width, k + 1,
                              IF d.rune = Newline THEN Append(acc, k) ELSE acc)

FindNewlines_RuneIndex(blob) == FindNewlinesByRune(blob, 0, 0, << >>)

RECURSIVE FindNewlinesFrom(_, _, _)
FindNewlinesFrom(blob, index, acc) ==
  IF index >= Len(blob) THEN acc
  ELSE LET d == DecodeRune(blob, index)
       IN  FindNewlinesFrom(blob, index + d.width,
                            IF d.rune = Newline THEN Append(acc, index) ELSE acc)

FindNewlines(blob) == FindNewlinesFrom(blob, 0, << >>)

NewLineIndex(json) == [JsonBlob |-> json, NewlinePos |-> FindNewlines(json)]

\* ---------------------------------------------------- bytePosToRunePos
\* returns [ok, v]; ok = FALSE when the index or the slice expression panics
bytePosToRunePos(blob, np, linenoz, offset) ==
  IF linenoz > 0 /\ ~(linenoz - 1 \in 0..(Len(np) - 1))
    THEN [ok |-> FALSE, v |-> 0]
  ELSE
    LET beg == IF linenoz > 0 THEN np[linenoz] + 1 ELSE 0
    IN  IF beg < 0 \/ beg > offset + 1 \/ offset + 1 > Len(blob)
          THEN [ok |-> FALSE, v |-> 0]
          ELSE [ok |-> TRUE,
                v  |-> RuneCountInString(SubSeq(blob, beg + 1, offset + 1)) - 1]

\* ----------------------------------------------------- OffsetToLineCol
\* variation: the lower bound is not tested
OutOfBounds_NoLowerCheck(blob, offset) == offset >= Len(blob)

\* variation: the end-of-blob offset is let through
OutOfBounds_InclusiveEnd(blob, offset) == offset > Len(blob) \/ offset < 0

OutOfBounds(blob, offset) == offset >= Len(blob) \/ offset < 0

WithRune(l, b, r) == IF r.ok THEN Pos(l, b, r.v) ELSE Panic

NoNewlines(blob, np, offset) ==
  WithRune(0, offset, bytePosToRunePos(blob, np, 0, offset))

\* variation: the column subtraction is reversed
OnLastLine_Reversed(blob, np, offset) ==
  LET n == Len(np)
  IN  WithRune(n, (np[n] + 1) - offset, bytePosToRunePos(blob, np, n, offset))

OnLastLine(blob, np, offset) ==
  LET n == Len(np)
  IN  WithRune(n, offset - (np[n] + 1), bytePosToRunePos(blob, np, n, offset))

\* variation: the line is reported one too low
BySearch_LineBelow(blob, np, offset) ==
  LET srch == Search(np, offset)
  IN  IF ~(srch - 1 \in 0..(Len(np) - 1))
        THEN Panic
        ELSE LET linestart == np[srch] + 1
             IN  WithRune(srch - 1, offset - linestart,
                          bytePosToRunePos(blob, np, srch, offset))

BySearch(blob, np, offset) ==
  LET srch == Search(np, offset)
  IN  IF ~(srch - 1 \in 0..(Len(np) - 1))
        THEN Panic
        ELSE LET linestart == np[srch] + 1
             IN  WithRune(srch, offset - linestart,
                          bytePosToRunePos(blob, np, srch, offset))

\* variation: offset 0 is not special-cased
OffsetToLineCol_NoZeroCase(blob, np, offset) ==
  IF OutOfBounds(blob, offset) THEN Pos(-1, -1, -1)
  ELSE IF Len(np) = 0 THEN NoNewlines(blob, np, offset)
  ELSE IF offset >= np[Len(np)] THEN OnLastLine(blob, np, offset)
  ELSE BySearch(blob, np, offset)

OffsetToLineCol(blob, np, offset) ==
  IF OutOfBounds(blob, offset) THEN Pos(-1, -1, -1)
  ELSE IF offset = 0 THEN Pos(0, 0, 0)
  ELSE IF Len(np) = 0 THEN NoNewlines(blob, np, offset)
  ELSE IF offset >= np[Len(np)] THEN OnLastLine(blob, np, offset)
  ELSE BySearch(blob, np, offset)

\* ------------------------------------------------------- state machine
\* JsonBlob, NewlinePos: the fields of the LineIndex.
\* op: the last call made; offset, result: argument and return value of the
\* last OffsetToLineCol call; prevOffset, prevResult: those of the call
\* before it.
VARIABLES JsonBlob, NewlinePos, op, offset, result, prevOffset, prevResult

vars == <<JsonBlob, NewlinePos, op, offset, result, prevOffset, prevResult>>

Init ==
  /\ JsonBlob \in Blobs
  /\ NewlinePos = NewLineIndex(JsonBlob).NewlinePos
  /\ op = "NewLineIndex"
  /\ offset = 0
  /\ result = NoResult
  /\ prevOffset = 0
  /\ prevResult = NoResult

FindNewlinesCall ==
  /\ NewlinePos' = FindNewlines(JsonBlob)
  /\ op' = "FindNewlines"
  /\ UNCHANGED <<JsonBlob, offset, result, prevOffset, prevResult>>

\* variation: the call leaves the index reset, as FindNewlines does before
\* its scan
OffsetToLineColCall_Resets(o) ==
  /\ result' = OffsetToLineCol(JsonBlob, NewlinePos, o)
  /\ offset' = o
  /\ prevOffset' = offset
  /\ prevResult' = result
  /\ op' = "OffsetToLineCol"
  /\ NewlinePos' = << >>
  /\ UNCHANGED JsonBlob

OffsetToLineColCall(o) ==
  /\ result' = OffsetToLineCol(JsonBlob, NewlinePos, o)
  /\ offset' = o
  /\ prevOffset' = offset
  /\ prevResult' = result
  /\ op' = "OffsetToLineCol"
  /\ UNCHANGED <<JsonBlob, NewlinePos>>

Query == \E o \in Offsets : OffsetToLineColCall(o)

Next == FindNewlinesCall \/ Query

Spec == Init /\ [][Next]_vars

\* ------------------------------------------------- vocabulary of the claims
IsQuery == op = "OffsetToLineCol"

HasPrev == prevResult.kind # "none"

BlobLen == Len(JsonBlob)

TermCount == Len(NewlinePos)

IsPosition(r) == r.kind = "ok" /\ r.line # -1

IsOutOfRange(r) == r.kind = "ok" /\ r.line = -1

\* byte offsets of the '\n' bytes of the blob, read off the bytes
NewlineOffsets == {j \in 0..(BlobLen - 1) : At(JsonBlob, j) = Newline}

\* index (0-based) of the first terminator at or after offset o
FirstTermAtOrAfter(o) ==
  CHOOSE i \in 0..(TermCount - 1) :
    /\ o <= NewlinePos[i + 1]
    /\ \A k \in 0..(i - 1) : ~(o <= NewlinePos[k + 1])

\* start byte of the line that offset o lies on, a terminator byte
\* belonging to the line it ends
LineStartOf(o) ==
  LET before == {j \in NewlineOffsets : j < o}
  IN  IF before = {} THEN 0
      ELSE (CHOOSE j \in before : \A k \in before : k <= j) + 1

RECURSIVE ValidFrom(_, _)
ValidFrom(blob, i) ==
  IF i >= Len(blob) THEN TRUE
  ELSE LET d == DecodeRune(blob, i)
       IN  /\ (d.width > 1 \/ At(blob, i) < 128)
           /\ ValidFrom(blob, i + d.width)

ValidUTF8(blob) == ValidFrom(blob, 0)

\* bytes beyond the first of the characters in [from, to): in valid UTF-8
\* these are the continuation bytes
ExtraBytes(from, to) ==
  Cardinality({j \in from..(to - 1) : IsCont(At(JsonBlob, j))})

\* ------------------------------------------------------------------ C1
\* C1 (as stated): a query at an offset in [0, len(blob)] that is not past
\* the last terminator returns line = i + 1 and byteColumn = offset -
\* lineStart + 1, i being the smallest index with offset <=
\* terminatorOffsets[i] and lineStart = terminatorOffsets[i-1] + 1 (0 when
\* i = 0).
C1_AsStated ==
  (IsQuery /\ offset \in 0..BlobLen /\ TermCount > 0
     /\ offset <= NewlinePos[TermCount])
  => LET i == FirstTermAtOrAfter(offset)
         lineStart == IF i = 0 THEN 0 ELSE NewlinePos[i] + 1
     IN  /\ result.kind = "ok"
         /\ result.line = i + 1
         /\ result.bytecol = offset - lineStart + 1

\* ------------------------------------------------------------------ C2
\* C2 (as stated): every query completes with a position or OutOfRange, and
\* OutOfRange is returned only for an offset outside [0, len(blob)].
C2_AsStated ==
  IsQuery =>
    /\ result.kind = "ok"
    /\ (offset \in 0..BlobLen => ~IsOutOfRange(result))

\* ------------------------------------------------------------------ C3
\* C3: a query with offset < 0 or offset > len(blob) returns line = -1
\* (OutOfRange), never a position.
C3_OutOfRange ==
  (IsQuery /\ (offset < 0 \/ offset > BlobLen))
  => result = Pos(-1, -1, -1)

C3_Witness ==
  /\ IsQuery /\ HasPrev
  /\ offset = BlobLen + 1 /\ prevOffset = -1
  /\ TermCount > 0
  /\ IsOutOfRange(result) /\ IsOutOfRange(prevResult)

\* ------------------------------------------------------------------ C4
\* C4 (as stated): a query at offset = len(blob) is valid and returns the
\* final line (terminatorCount + 1) with byteColumn one past the last
\* character of that line (n + 1 on line 1 for a newline-free blob of
\* length n).
C4_AsStated ==
  (IsQuery /\ offset = BlobLen)
  => /\ IsPosition(result)
     /\ result.line = TermCount + 1
     /\ result.bytecol = BlobLen - LineStartOf(BlobLen) + 1

\* C4 (amended): a query at offset = len(blob) returns OutOfRange
\* (line = bytecol = runecol = -1) for every blob, the newline-free ones
\* included.
C4_EndIsOutOfRange ==
  (IsQuery /\ offset = BlobLen) => result = Pos(-1, -1, -1)

C4_Witness ==
  /\ IsQuery /\ offset = BlobLen /\ BlobLen >= 2 /\ TermCount = 0
  /\ IsOutOfRange(result)

\* ------------------------------------------------------------------ C5
\* C5 (as stated): on a non-empty blob a query at offset 0 returns (1, 1, 1).
C5_AsStated ==
  (IsQuery /\ offset = 0 /\ BlobLen > 0) => result = Pos(1, 1, 1)

\* C5 (amended): on a non-empty blob, also one whose first byte is a
\* terminator, a query at offset 0 returns (0, 0, 0).
C5_ZeroIsOrigin ==
  (IsQuery /\ offset = 0 /\ BlobLen > 0) => result = Pos(0, 0, 0)

C5_Witness ==
  /\ IsQuery /\ offset = 0 /\ BlobLen > 1
  /\ At(JsonBlob, 0) = Newline
  /\ result = Pos(0, 0, 0)

\* ------------------------------------------------------------------ C6
\* C6: after NewLineIndex and after any further FindNewlines call,
\* NewlinePos is strictly increasing, every entry is the offset of a '\n'
\* byte inside the blob, and every '\n' byte of the blob is recorded.
C6_NewlinePosExact ==
  /\ \A k \in 1..TermCount :
       /\ NewlinePos[k] \in 0..(BlobLen - 1)
       /\ At(JsonBlob, NewlinePos[k]) = Newline
  /\ \A k \in 1..(TermCount - 1) : NewlinePos[k] < NewlinePos[k + 1]
  /\ \A j \in NewlineOffsets : \E k \in 1..TermCount : NewlinePos[k] = j
  /\ (NewlineOffsets = {} => NewlinePos = << >>)

C6_Witness ==
  /\ op = "FindNewlines"
  /\ TermCount = 2
  /\ \E j \in 0..(NewlinePos[1] - 1) : IsCont(At(JsonBlob, j))

\* ------------------------------------------------------------------ C7
\* C7: two queries at offsets o1 < o2 of [0, len(blob)] that return the
\* same line return byte columns with bytecol(o1) < bytecol(o2).
SameLine(r1, r2) == r1.kind = "ok" /\ r2.kind = "ok" /\ r1.line = r2.line

C7_Monotonic ==
  /\ (IsQuery /\ HasPrev /\ prevOffset \in 0..BlobLen /\ offset \in 0..BlobLen
        /\ prevOffset < offset /\ SameLine(prevResult, result))
     => prevResult.bytecol < result.bytecol
  /\ (IsQuery /\ HasPrev /\ prevOffset \in 0..BlobLen /\ offset \in 0..BlobLen
        /\ offset < prevOffset /\ SameLine(prevResult, result))
     => result.bytecol < prevResult.bytecol

C7_Witness ==
  /\ IsQuery /\ HasPrev
  /\ 0 < prevOffset /\ prevOffset < offset /\ offset < BlobLen
  /\ SameLine(prevResult, result) /\ result.line >= 1
  /\ prevResult.bytecol < result.bytecol

\* ------------------------------------------------------------------ C8
\* C8 (as stated): on a valid UTF-8 blob, a query at a valid offset that is
\* the first byte of a character returns byteColumn - runeColumn = the
\* number of extra bytes of the characters that precede the offset on its
\* line, so byteColumn > runeColumn exactly when a multi-byte character
\* precedes the offset on that line.
C8_AsStated ==
  (IsQuery /\ ValidUTF8(JsonBlob) /\ offset \in 0..(BlobLen - 1)
     /\ ~IsCont(At(JsonBlob, offset)))
  => LET extra == ExtraBytes(LineStartOf(offset), offset)
     IN  /\ IsPosition(result)
         /\ result.bytecol - result.runecol = extra
         /\ (result.bytecol > result.runecol) <=> (extra > 0)

C10_Injective ==
  (IsQuery /\ HasPrev /\ prevOffset # offset
     /\ IsPosition(prevResult) /\ IsPosition(result))
  => <<prevResult.line, prevResult.bytecol>> # <<result.line, result.bytecol>>

C10_Witness ==
  /\ IsQuery /\ HasPrev
  /\ prevOffset = 0 /\ offset > 0
  /\ 0 \in NewlineOffsets
  /\ offset \in NewlineOffsets
  /\ IsPosition(prevResult) /\ IsPosition(result)

====
